---- MODULE Spec2Model ----
(***************************************************************************)
(* State-machine model of the two scheduled scripts of discord-stock-bot:  *)
(*   main.py      the morning market report (calendar gate, quote fetch    *)
(*                with retries, commentary, message, webhook post)         *)
(*   news_bot.py  the noon news digest (two news sources, deduplication,   *)
(*                summary, message, webhook post)                          *)
(* Spec       one run of either script, from process start to exit.        *)
(* SpecStock  one call get_stock_data(symbol) and the caller's bookkeeping *)
(*            for that symbol, with the provider's final response kept.    *)
(* SpecTrend  get_trend_emoji applied to one percent change.               *)
(*                                                                         *)
(* Prices are whole units; percent changes are fixed-point hundredths of a *)
(* percent (1.0 % = 100).  Japanese display strings are romanised.         *)
(***************************************************************************)
EXTENDS Integers, Sequences, FiniteSets, TLC

VARIABLES
    prog,          \* which entry point runs
    pc,            \* position of the run
    weekday,       \* datetime.now(JST).weekday(): 0 = Monday .. 6 = Sunday
    env,           \* os.environ restricted to the variables the scripts read
    exit_code,     \* process exit status (0 unless sys.exit(1) was reached)
    net,           \* kinds of network activity that happened so far
    sym,           \* index in SymbolList of the symbol being fetched
    attempt,       \* get_stock_data: value of the loop variable
    hist,          \* get_stock_data: response of the final attempt (SpecStock only)
    ret,           \* get_stock_data: returned value (SpecStock only)
    reqs,          \* get_stock_data: provider requests of the call (SpecStock only)
    zero_div,      \* a percent change was computed with prev_close = 0
    results,       \* fetch_all_market_data: results[category]["data"]
    errors,        \* fetch_all_market_data: errors
    queried,       \* symbols get_stock_data was called with, in order
    ai_calls,      \* text-generation requests made
    ai_failed,     \* the text-generation call raised
    ai_analysis,   \* commentary / news summary string
    message,       \* assembled message (sequence of lines)
    posts,         \* webhook POSTs made
    post_ok,       \* result of the last send_to_discord
    google_news,   \* news_bot: items returned by fetch_google_news so far
    gq,            \* news_bot: number of Google News queries done
    yahoo_news,    \* news_bot: items returned by fetch_yahoo_finance_news
    unique_news,   \* news_bot: deduplicate_news(all_news)
    change_pct,    \* SpecTrend: argument of get_trend_emoji
    emoji          \* SpecTrend: result of get_trend_emoji

vars == << prog, pc, weekday, env, exit_code, net, sym, attempt, hist, ret,
           reqs, zero_div, results, errors, queried, ai_calls, ai_failed,
           ai_analysis, message, posts, post_ok, google_news, gq, yahoo_news,
           unique_news, change_pct, emoji >>

stockVars == << sym, attempt, hist, ret, reqs, zero_div, results, errors, queried >>
newsVars == << google_news, gq, yahoo_news, unique_news >>
trendVars == << change_pct, emoji >>
outVars == << ai_calls, ai_failed, ai_analysis, message, posts, post_ok >>

----------------------------------------------------------------------------
(* Bounds of the model *)

\* longest bar history the quote provider returns in the model
MaxBars == 3
\* most items fetch_google_news returns in the model
MaxGoogle == 2
\* most articles the Yahoo page lists in the model
MaxYahoo == 2
\* percent changes given to get_trend_emoji: -MaxPct .. MaxPct hundredths
MaxPct == 150

\* closing prices the provider reports (non-positive ones included)
Closes == {-1, 0, 1, 2}

Days == 0 .. 6

----------------------------------------------------------------------------
(* main.py: configuration tables *)

\* MARKET_DATA flattened in iteration order
SymbolList ==
    << [symbol |-> "^N225",    name |-> "Nikkei",  category |-> "japan"],
       [symbol |-> "1306.T",   name |-> "TOPIX",   category |-> "japan"],
       [symbol |-> "^GSPC",    name |-> "S&P 500", category |-> "us"],
       [symbol |-> "^IXIC",    name |-> "NASDAQ",  category |-> "us"],
       [symbol |-> "^DJI",     name |-> "Dow",     category |-> "us"],
       [symbol |-> "USDJPY=X", name |-> "USDJPY",  category |-> "fx"] >>

NumSymbols == Len(SymbolList)

Categories == {"japan", "us", "fx"}

\* the category order format_message iterates in
CategoryOrder == << "japan", "us", "fx" >>

CategoryTitle(c) ==
    CASE c = "japan" -> "JP market"
      [] c = "us"    -> "US market (previous day)"
      [] c = "fx"    -> "FX"

\* range(3) in get_stock_data
RetryAttempts == 3

\* return value of generate_ai_analysis when the call raises
FallbackAnalysis == "analysis could not be generated"

\* return value of summarize_news_with_ai when the call raises
FallbackSummary == "summary could not be generated"

----------------------------------------------------------------------------
(* main.py: is_weekday *)

\* variant: Saturday counted as a business day
is_weekday_sat(d) == d < 6

\* now.weekday() < 5
is_weekday(d) == d < 5

----------------------------------------------------------------------------
(* main.py: get_stock_data *)

\* one daily bar of ticker.history(): its close, and whether a column is NaN
Bar == [close : Closes, nan : {FALSE}] \cup {[close |-> 0, nan |-> TRUE]}

BarSeqs == UNION {[1 .. n -> Bar] : n \in 0 .. MaxBars}

\* what one request to the quote provider can produce: an exception, or a
\* frame of bars whose index is time-zone naive or time-zone aware
Responses ==
    {[raises |-> TRUE, bars |-> << >>, tz_aware |-> FALSE]}
    \cup [raises : {FALSE}, bars : BarSeqs, tz_aware : BOOLEAN]

NoResponse == [raises |-> FALSE, bars |-> << >>, tz_aware |-> FALSE]

\* hist.dropna()
dropna(bars) == SelectSeq(bars, LAMBDA b : ~b.nan)

\* hist.empty or len(hist) < 2
Insufficient(bars) == Len(bars) = 0 \/ Len(bars) < 2

\* variant: only the latest price is validated
InvalidPrice_latest_only(price, prev_close) == price <= 0

\* price <= 0 or prev_close <= 0
InvalidPrice(price, prev_close) == price <= 0 \/ prev_close <= 0

\* (change / prev_close) * 100 in hundredths of a percent (exact for the
\* closes of the model; prev_close # 0)
PercentChange(change, prev_close) ==
    IF prev_close > 0 THEN (change * 10000) \div prev_close
    ELSE 0 - ((change * 10000) \div (0 - prev_close))

\* Python's None as a value of the same shape as a quote
NoneData ==
    [isNone |-> TRUE, price |-> 0, prev_close |-> 0, change |-> 0,
     change_pct |-> 0, date |-> "", verified |-> FALSE]

\* the dict get_stock_data returns
QuoteDict(price, prev_close) ==
    [isNone |-> FALSE, price |-> price, prev_close |-> prev_close,
     change |-> price - prev_close,
     change_pct |-> PercentChange(price - prev_close, prev_close),
     date |-> "utc", verified |-> TRUE]

Failed(why) == [why |-> why, data |-> NoneData]

\* the body of one iteration of "for attempt in range(3)": the value it
\* returns ("ok"), or the reason it continues with the next iteration
TryFetch(resp) ==
    IF resp.raises THEN Failed("exception")
    ELSE IF Insufficient(resp.bars) THEN Failed("insufficient")
    ELSE LET h == dropna(resp.bars) IN
         IF Len(h) < 2 THEN Failed("insufficient_after_dropna")
         ELSE LET price == h[Len(h)].close
                  prev_close == h[Len(h) - 1].close
              IN  IF InvalidPrice(price, prev_close) THEN Failed("invalid_price")
                  \* float division by zero raises; "except Exception" continues
                  ELSE IF prev_close = 0 THEN Failed("zero_division")
                  \* Timestamp.tz_localize(UTC) raises TypeError on a tz-aware
                  \* timestamp; "except Exception" continues
                  ELSE IF resp.tz_aware THEN Failed("tz_localize")
                  ELSE [why |-> "ok", data |-> QuoteDict(price, prev_close)]

\* every result one iteration can have, over all provider responses
FetchOutcomes == {TryFetch(resp) : resp \in Responses}

\* the loop gives up after this iteration
LastAttempt(a) == a + 1 >= RetryAttempts

----------------------------------------------------------------------------
(* main.py: fetch_all_market_data *)

EmptyResults == [c \in Categories |-> << >>]

\* variant: the returned value is stored without the check
Usable_unchecked(data) == TRUE

\* data and data.get("verified")
Usable(data) == ~data.isNone /\ data.verified

\* d[name] = data on a dict kept in insertion order
DictSet(d, name, data) ==
    IF \E k \in 1 .. Len(d) : d[k].name = name
    THEN [k \in 1 .. Len(d) |->
            IF d[k].name = name THEN [name |-> name, data |-> data] ELSE d[k]]
    ELSE Append(d, [name |-> name, data |-> data])

\* lines 118-122 for one symbol
StoreResults(res, s, data) ==
    IF Usable(data)
    THEN [res EXCEPT ![s.category] = DictSet(res[s.category], s.name, data)]
    ELSE res

StoreErrors(errs, s, data) ==
    IF Usable(data) THEN errs ELSE Append(errs, s.symbol)

\* sum(len(info["data"]) for info in market_data.values())
total_items(market_data) ==
    Len(market_data["japan"]) + Len(market_data["us"]) + Len(market_data["fx"])

\* variant: the empty case is never detected
NoMarketData_never(market_data) == total_items(market_data) < 0

\* total_items == 0
NoMarketData(market_data) == total_items(market_data) = 0

----------------------------------------------------------------------------
(* main.py: format_price, get_trend_emoji, generate_ai_analysis,
   format_message, send_to_discord *)

\* the formatted price: the value, the decimals shown and the suffix
\* ("USDJPY" stands for the display name that contains the yen pair's name)
format_price(price, name) ==
    IF name = "USDJPY" THEN [value |-> price, decimals |-> 2, suffix |-> " yen"]
    ELSE IF price >= 10000 THEN [value |-> price, decimals |-> 0, suffix |-> ""]
    ELSE IF price >= 100 THEN [value |-> price, decimals |-> 0, suffix |-> ""]
    ELSE [value |-> price, decimals |-> 2, suffix |-> ""]

\* variant: the two negative comparisons made inclusive
get_trend_emoji_inclusive(p) ==
    IF p >= 100 THEN "strong-up"
    ELSE IF p >= 30 THEN "up"
    ELSE IF p >= -30 THEN "flat"
    ELSE IF p >= -100 THEN "down"
    ELSE "warning"

\* thresholds 1.0, 0.3, -0.3, -1.0 in hundredths of a percent
get_trend_emoji(p) ==
    IF p >= 100 THEN "strong-up"
    ELSE IF p >= 30 THEN "up"
    ELSE IF p > -30 THEN "flat"
    ELSE IF p > -100 THEN "down"
    ELSE "warning"

\* "+" if change_pct >= 0 else ""
Sign(p) == IF p >= 0 THEN "+" ELSE ""

\* variant: a failure yields an empty commentary
generate_ai_analysis_empty(raised) ==
    IF raised THEN "" ELSE "analysis text"

\* what generate_ai_analysis returns: the stripped completion, or the
\* fallback sentence when anything in its try block raised
generate_ai_analysis(raised) ==
    IF raised THEN FallbackAnalysis ELSE "analysis text"

NoPrice == [value |-> 0, decimals |-> 0, suffix |-> ""]

TextLine(t) ==
    [kind |-> "text", text |-> t, name |-> "", price |-> NoPrice,
     sign |-> "", pct |-> 0, trend |-> ""]

\* the line of one quote: name, price, signed percent change, trend glyph
QuoteLine(name, values) ==
    [kind |-> "quote", text |-> "", name |-> name,
     price |-> format_price(values.price, name),
     sign |-> Sign(values.change_pct), pct |-> values.change_pct,
     trend |-> get_trend_emoji(values.change_pct)]

\* the section of one category; nothing when the category has no data
CategoryLines(market_data, c) ==
    IF Len(market_data[c]) = 0 THEN << >>
    ELSE << TextLine(""), TextLine(CategoryTitle(c)) >>
         \o [k \in 1 .. Len(market_data[c]) |->
               QuoteLine(market_data[c][k].name, market_data[c][k].data)]

\* the lines format_message joins (the date in the title is left out)
format_message(market_data, analysis) ==
    << TextLine("good morning"), TextLine("market report"), TextLine(""),
       TextLine("--------") >>
    \o CategoryLines(market_data, CategoryOrder[1])
    \o CategoryLines(market_data, CategoryOrder[2])
    \o CategoryLines(market_data, CategoryOrder[3])
    \o << TextLine(""), TextLine("--------"), TextLine(""),
          TextLine("today's points"), TextLine(""), TextLine(analysis),
          TextLine(""), TextLine("--------"), TextLine("have a nice day") >>

\* variant: a failed post is not reported
ExitAfterSend_ignored(ok) == 0

\* exit status after send_to_discord returned ok (main: lines 294-298)
ExitAfterSend(ok) == IF ok THEN 0 ELSE 1

\* webhook POSTs one call of send_to_discord makes
PostsPerSend == 1

----------------------------------------------------------------------------
(* process environment *)

\* "" stands for a variable that is absent or empty
EnvValues == {"", "set"}

WebhookVar(p) ==
    IF p = "news_bot" THEN "DISCORD_NEWS_WEBHOOK_URL" ELSE "DISCORD_WEBHOOK_URL"

EnvVars(p) == {WebhookVar(p), "OPENAI_API_KEY"}

\* variant: the variable is never found missing
Missing_never(value) == FALSE

\* not os.environ.get(name)
Missing(value) == value = ""

----------------------------------------------------------------------------
(* main.py: main *)

\* lines 262-264
MainGate ==
    /\ prog = "main" /\ pc = "is_weekday"
    /\ IF is_weekday(weekday)
       THEN pc' = "webhook_url"
       ELSE pc' = "done"
    /\ UNCHANGED << prog, weekday, env, exit_code, net >>
    /\ UNCHANGED << stockVars, outVars, newsVars, trendVars >>

\* lines 266-269
MainCheckWebhook ==
    /\ prog = "main" /\ pc = "webhook_url"
    /\ IF Missing(env[WebhookVar(prog)])
       THEN pc' = "done" /\ exit_code' = 1
       ELSE pc' = "openai_key" /\ exit_code' = exit_code
    /\ UNCHANGED << prog, weekday, env, net >>
    /\ UNCHANGED << stockVars, outVars, newsVars, trendVars >>

\* lines 271-274
MainCheckOpenAIKey ==
    /\ prog = "main" /\ pc = "openai_key"
    /\ IF Missing(env["OPENAI_API_KEY"])
       THEN pc' = "done" /\ exit_code' = 1
       ELSE pc' = "fetch" /\ exit_code' = exit_code
    /\ UNCHANGED << prog, weekday, env, net >>
    /\ UNCHANGED << stockVars, outVars, newsVars, trendVars >>

\* line 277: one iteration of the retry loop of get_stock_data for the
\* current symbol and, when the call returns, lines 118-122 for it
MainFetchAttempt ==
    /\ prog = "main" /\ pc = "fetch"
    /\ \E out \in FetchOutcomes :
         LET s == SymbolList[sym]
             returns == out.why = "ok" \/ LastAttempt(attempt)
         IN  /\ net' = net \cup {"quote"}
             /\ zero_div' = (zero_div \/ out.why = "zero_division")
             /\ queried' = IF attempt = 0 THEN Append(queried, s.symbol) ELSE queried
             /\ IF returns
                THEN /\ results' = StoreResults(results, s, out.data)
                     /\ errors' = StoreErrors(errors, s, out.data)
                     /\ attempt' = 0
                     /\ sym' = sym + 1
                     /\ pc' = IF sym = NumSymbols THEN "total_items" ELSE "fetch"
                ELSE /\ attempt' = attempt + 1
                     /\ UNCHANGED << results, errors, sym, pc >>
    /\ UNCHANGED << prog, weekday, env, exit_code, hist, ret, reqs >>
    /\ UNCHANGED << outVars, newsVars, trendVars >>

\* lines 279-284
MainCheckTotal ==
    /\ prog = "main" /\ pc = "total_items"
    /\ IF NoMarketData(results)
       THEN pc' = "done" /\ exit_code' = 1
       ELSE pc' = "analysis" /\ exit_code' = exit_code
    /\ UNCHANGED << prog, weekday, env, net >>
    /\ UNCHANGED << stockVars, outVars, newsVars, trendVars >>

\* lines 286-292: generate_ai_analysis, then format_message
MainAnalyse ==
    /\ prog = "main" /\ pc = "analysis"
    /\ \E raised \in BOOLEAN :
         /\ ai_failed' = raised
         /\ ai_analysis' = generate_ai_analysis(raised)
         /\ message' = format_message(results, generate_ai_analysis(raised))
    /\ ai_calls' = ai_calls + 1
    /\ net' = net \cup {"openai"}
    /\ pc' = "send"
    /\ UNCHANGED << prog, weekday, env, exit_code, posts, post_ok >>
    /\ UNCHANGED << stockVars, newsVars, trendVars >>

\* lines 294-298: send_to_discord, then the exit status
MainSend ==
    /\ prog = "main" /\ pc = "send"
    /\ \E ok \in BOOLEAN :
         /\ post_ok' = ok
         /\ exit_code' = ExitAfterSend(ok)
    /\ posts' = posts + PostsPerSend
    /\ net' = net \cup {"webhook"}
    /\ pc' = "done"
    /\ UNCHANGED << prog, weekday, env, ai_calls, ai_failed, ai_analysis, message >>
    /\ UNCHANGED << stockVars, newsVars, trendVars >>

----------------------------------------------------------------------------
(* news_bot.py: titles.  A title is a sequence of characters. *)

Rep(c, n) == [k \in 1 .. n |-> c]

\* characters the regular expression \s matches ("IDSP": ideographic space)
Whitespace == {" ", "\t", "\n", "IDSP"}

\* titles the news sources deliver in the model: empty; two that differ
\* only in white space; three that agree on their first 30 characters
\* other than white space; one of exactly 10 characters
Titles ==
    { << >>,
      << "a", " ", "b" >>,
      << "a", "b" >>,
      Rep("a", 30) \o << "x" >>,
      Rep("a", 30) \o << "y" >>,
      Rep("a", 29) \o << "\t", "a", "z" >>,
      Rep("c", 10) }

\* [:30] of the normalised title
KeyLen == 30
\* feed.entries[:5]
GoogleTake == 5
\* soup.select(...)[:10]
YahooTake == 10
\* number of Google News queries
NumQueries == 3
\* len(title) > 10
MinYahooTitle == 10

\* s[:n]
Take(s, n) == IF Len(s) <= n THEN s ELSE SubSeq(s, 1, n)

\* re.sub(r'\s+', '', title)
RemoveWhitespace(title) == SelectSeq(title, LAMBDA ch : ch \notin Whitespace)

\* variant: the title is cut without removing white space
title_normalized_raw(title) == Take(title, KeyLen)

\* re.sub(r'\s+', '', item["title"])[:30]
title_normalized(title) == Take(RemoveWhitespace(title), KeyLen)

RECURSIVE DedupLoop(_, _, _, _)
\* the for loop of deduplicate_news from item k on
DedupLoop(news_items, k, seen_titles, unique_items) ==
    IF k > Len(news_items) THEN unique_items
    ELSE LET key == title_normalized(news_items[k].title) IN
         IF key \notin seen_titles
         THEN DedupLoop(news_items, k + 1, seen_titles \cup {key},
                        Append(unique_items, news_items[k]))
         ELSE DedupLoop(news_items, k + 1, seen_titles, unique_items)

deduplicate_news(news_items) == DedupLoop(news_items, 1, {}, << >>)

----------------------------------------------------------------------------
(* news_bot.py: the two news sources *)

GoogleLinks == {"", "https://news.google.com/a"}

\* the entries of one parsed feed
FeedEntries ==
    UNION {[1 .. n -> [title : Titles, link : GoogleLinks]] : n \in 0 .. MaxGoogle}

\* if title and link
GoogleKeeps(entry) == entry.title # << >> /\ entry.link # ""

GoogleItem(entry) ==
    [title |-> entry.title, link |-> entry.link, source |-> "publisher",
     origin |-> "Google News"]

\* the items one query appends: those of feed.entries[:5] with title and link
GoogleItems(entries) ==
    LET kept == SelectSeq(Take(entries, GoogleTake), GoogleKeeps)
    IN  [k \in 1 .. Len(kept) |-> GoogleItem(kept[k])]

YahooHrefs == {"/news/detail/1", "https://finance.yahoo.co.jp/news/detail/1"}

\* the anchors the page lists: stripped text and href
YahooArticles ==
    UNION {[1 .. n -> [text : Titles, href : YahooHrefs]] : n \in 0 .. MaxYahoo}

\* if not link.startswith("http"): link = "https://finance.yahoo.co.jp" + link
YahooLink(href) ==
    IF href = "/news/detail/1" THEN "https://finance.yahoo.co.jp/news/detail/1"
    ELSE href

\* if title and len(title) > 10
YahooKeeps(article) == article.text # << >> /\ Len(article.text) > MinYahooTitle

YahooItem(article) ==
    [title |-> article.text, link |-> YahooLink(article.href),
     source |-> "Yahoo Finance JP", origin |-> "Yahoo Finance"]

YahooItems(articles) ==
    LET kept == SelectSeq(Take(articles, YahooTake), YahooKeeps)
    IN  [k \in 1 .. Len(kept) |-> YahooItem(kept[k])]

\* every list one Google News query can add
GoogleQueryResults == {GoogleItems(entries) : entries \in FeedEntries}

\* every list fetch_yahoo_finance_news can return
YahooResults == {YahooItems(articles) : articles \in YahooArticles}

\* what summarize_news_with_ai returns
summarize_news_with_ai(raised) ==
    IF raised THEN FallbackSummary ELSE "summary text"

\* the lines format_message of news_bot.py joins
news_format_message(summary) ==
    << TextLine("news digest"), TextLine("12:00"), TextLine(""),
       TextLine("--------"), TextLine(""), TextLine(summary), TextLine(""),
       TextLine("--------"), TextLine("for your afternoon trades") >>

\* not unique_news
NoNews(items) == Len(items) = 0

----------------------------------------------------------------------------
(* news_bot.py: main *)

\* lines 204-207
NewsCheckWebhook ==
    /\ prog = "news_bot" /\ pc = "webhook_url"
    /\ IF Missing(env[WebhookVar(prog)])
       THEN pc' = "done" /\ exit_code' = 1
       ELSE pc' = "openai_key" /\ exit_code' = exit_code
    /\ UNCHANGED << prog, weekday, env, net >>
    /\ UNCHANGED << stockVars, outVars, newsVars, trendVars >>

\* lines 209-212
NewsCheckOpenAIKey ==
    /\ prog = "news_bot" /\ pc = "openai_key"
    /\ IF Missing(env["OPENAI_API_KEY"])
       THEN pc' = "done" /\ exit_code' = 1
       ELSE pc' = "google" /\ exit_code' = exit_code
    /\ UNCHANGED << prog, weekday, env, net >>
    /\ UNCHANGED << stockVars, outVars, newsVars, trendVars >>

\* line 215: one query of fetch_google_news (the feed is parsed, or the
\* query raises and adds nothing)
NewsGoogleQuery ==
    /\ prog = "news_bot" /\ pc = "google"
    /\ \E raises \in BOOLEAN : \E parsed \in GoogleQueryResults :
         LET items == IF raises THEN << >> ELSE parsed
         IN  /\ raises => parsed = << >>
             /\ Len(google_news) + Len(items) <= MaxGoogle
             /\ google_news' = google_news \o items
    /\ gq' = gq + 1
    /\ pc' = IF gq + 1 = NumQueries THEN "yahoo" ELSE "google"
    /\ net' = net \cup {"news"}
    /\ UNCHANGED << prog, weekday, env, exit_code, yahoo_news, unique_news >>
    /\ UNCHANGED << stockVars, outVars, trendVars >>

\* line 219: fetch_yahoo_finance_news
NewsYahoo ==
    /\ prog = "news_bot" /\ pc = "yahoo"
    /\ \E raises \in BOOLEAN : \E listed \in YahooResults :
         /\ raises => listed = << >>
         /\ yahoo_news' = IF raises THEN << >> ELSE listed
    /\ pc' = "deduplicate"
    /\ net' = net \cup {"news"}
    /\ UNCHANGED << prog, weekday, env, exit_code, google_news, gq, unique_news >>
    /\ UNCHANGED << stockVars, outVars, trendVars >>

\* lines 222-228
NewsDeduplicate ==
    /\ prog = "news_bot" /\ pc = "deduplicate"
    /\ unique_news' = deduplicate_news(google_news \o yahoo_news)
    /\ IF NoNews(deduplicate_news(google_news \o yahoo_news))
       THEN pc' = "done" /\ exit_code' = 1
       ELSE pc' = "summarize" /\ exit_code' = exit_code
    /\ UNCHANGED << prog, weekday, env, net, google_news, gq, yahoo_news >>
    /\ UNCHANGED << stockVars, outVars, trendVars >>

\* lines 230-236: summarize_news_with_ai, then format_message
NewsSummarize ==
    /\ prog = "news_bot" /\ pc = "summarize"
    /\ \E raised \in BOOLEAN :
         /\ ai_failed' = raised
         /\ ai_analysis' = summarize_news_with_ai(raised)
         /\ message' = news_format_message(summarize_news_with_ai(raised))
    /\ ai_calls' = ai_calls + 1
    /\ net' = net \cup {"openai"}
    /\ pc' = "send"
    /\ UNCHANGED << prog, weekday, env, exit_code, posts, post_ok >>
    /\ UNCHANGED << stockVars, newsVars, trendVars >>

\* lines 238-242
NewsSend ==
    /\ prog = "news_bot" /\ pc = "send"
    /\ \E ok \in BOOLEAN :
         /\ post_ok' = ok
         /\ exit_code' = ExitAfterSend(ok)
    /\ posts' = posts + PostsPerSend
    /\ net' = net \cup {"webhook"}
    /\ pc' = "done"
    /\ UNCHANGED << prog, weekday, env, ai_calls, ai_failed, ai_analysis, message >>
    /\ UNCHANGED << stockVars, newsVars, trendVars >>

----------------------------------------------------------------------------
(* One run of a script *)

\* values every run starts from, whatever the entry point
InitCommon ==
    /\ exit_code = 0 /\ net = {}
    /\ sym = 1 /\ attempt = 0 /\ hist = NoResponse /\ ret = NoneData /\ reqs = 0
    /\ zero_div = FALSE
    /\ results = EmptyResults /\ errors = << >> /\ queried = << >>
    /\ ai_calls = 0 /\ ai_failed = FALSE /\ ai_analysis = "" /\ message = << >>
    /\ posts = 0 /\ post_ok = FALSE
    /\ google_news = << >> /\ gq = 0 /\ yahoo_news = << >> /\ unique_news = << >>
    /\ change_pct = 0 /\ emoji = ""

\* main.py starts on any day; news_bot.py never looks at the day to decide
Init ==
    /\ prog \in {"main", "news_bot"}
    /\ pc = IF prog = "main" THEN "is_weekday" ELSE "webhook_url"
    /\ weekday \in IF prog = "main" THEN Days ELSE {0}
    /\ env \in [EnvVars(prog) -> EnvValues]
    /\ InitCommon

Next ==
    \/ MainGate
    \/ MainCheckWebhook
    \/ MainCheckOpenAIKey
    \/ MainFetchAttempt
    \/ MainCheckTotal
    \/ MainAnalyse
    \/ MainSend
    \/ NewsCheckWebhook
    \/ NewsCheckOpenAIKey
    \/ NewsGoogleQuery
    \/ NewsYahoo
    \/ NewsDeduplicate
    \/ NewsSummarize
    \/ NewsSend

Spec == Init /\ [][Next]_vars

----------------------------------------------------------------------------
(* One call of get_stock_data, seen from fetch_all_market_data *)

\* one iteration of the retry loop; the response of the iteration that
\* ends the call is kept in hist
StockAttempt ==
    /\ prog = "get_stock_data" /\ pc = "call"
    /\ \E resp \in Responses :
         LET out == TryFetch(resp)
         IN  /\ zero_div' = (zero_div \/ out.why = "zero_division")
             /\ IF out.why = "ok" \/ LastAttempt(attempt)
                THEN /\ ret' = out.data /\ hist' = resp
                     /\ pc' = "returned" /\ attempt' = attempt
                ELSE /\ ret' = ret /\ hist' = hist
                     /\ pc' = "call" /\ attempt' = attempt + 1
    /\ reqs' = reqs + 1
    /\ queried' = IF attempt = 0 THEN Append(queried, SymbolList[sym].symbol) ELSE queried
    /\ net' = net \cup {"quote"}
    /\ UNCHANGED << prog, weekday, env, exit_code, sym, results, errors >>
    /\ UNCHANGED << outVars, newsVars, trendVars >>

\* lines 118-122 of fetch_all_market_data for the returned value
StockStore ==
    /\ prog = "get_stock_data" /\ pc = "returned"
    /\ results' = StoreResults(results, SymbolList[sym], ret)
    /\ errors' = StoreErrors(errors, SymbolList[sym], ret)
    /\ pc' = "stored"
    /\ UNCHANGED << prog, weekday, env, exit_code, net, sym, attempt, hist, ret,
                    reqs, zero_div, queried >>
    /\ UNCHANGED << outVars, newsVars, trendVars >>

\* lines 279-289 for the stored value: format_message is reached only with
\* market data, and writes the line of the quote
StockFormat ==
    /\ prog = "get_stock_data" /\ pc = "stored"
    /\ ~NoMarketData(results)
    /\ message' = format_message(results, ai_analysis)
    /\ pc' = "formatted"
    /\ UNCHANGED << prog, weekday, env, exit_code, net >>
    /\ UNCHANGED << ai_calls, ai_failed, ai_analysis, posts, post_ok >>
    /\ UNCHANGED << stockVars, newsVars, trendVars >>

InitStock ==
    /\ prog = "get_stock_data" /\ pc = "call"
    /\ weekday = 0 /\ env = [v \in EnvVars("main") |-> "set"]
    /\ exit_code = 0 /\ net = {}
    /\ sym \in 1 .. NumSymbols
    /\ attempt = 0 /\ hist = NoResponse /\ ret = NoneData /\ reqs = 0
    /\ zero_div = FALSE
    /\ results = EmptyResults /\ errors = << >> /\ queried = << >>
    /\ ai_calls = 0 /\ ai_failed = FALSE /\ ai_analysis = "" /\ message = << >>
    /\ posts = 0 /\ post_ok = FALSE
    /\ google_news = << >> /\ gq = 0 /\ yahoo_news = << >> /\ unique_news = << >>
    /\ change_pct = 0 /\ emoji = ""

NextStock == StockAttempt \/ StockStore \/ StockFormat

SpecStock == InitStock /\ [][NextStock]_vars

----------------------------------------------------------------------------
(* get_trend_emoji on one percent change *)

TrendApply ==
    /\ prog = "get_trend_emoji" /\ pc = "call"
    /\ emoji' = get_trend_emoji(change_pct)
    /\ pc' = "returned"
    /\ UNCHANGED << prog, weekday, env, exit_code, net, change_pct >>
    /\ UNCHANGED << stockVars, outVars, newsVars >>

InitTrend ==
    /\ prog = "get_trend_emoji" /\ pc = "call"
    /\ weekday = 0 /\ env = [v \in EnvVars("main") |-> "set"]
    /\ exit_code = 0 /\ net = {}
    /\ sym = 1 /\ attempt = 0 /\ hist = NoResponse /\ ret = NoneData /\ reqs = 0
    /\ zero_div = FALSE
    /\ results = EmptyResults /\ errors = << >> /\ queried = << >>
    /\ ai_calls = 0 /\ ai_failed = FALSE /\ ai_analysis = "" /\ message = << >>
    /\ posts = 0 /\ post_ok = FALSE
    /\ google_news = << >> /\ gq = 0 /\ yahoo_news = << >> /\ unique_news = << >>
    /\ change_pct \in (0 - MaxPct) .. MaxPct /\ emoji = ""

NextTrend == TrendApply

SpecTrend == InitTrend /\ [][NextTrend]_vars

----------------------------------------------------------------------------
(* Properties *)

\* a required environment variable of the running script is absent
ConfigAbsent == \E v \in EnvVars(prog) : env[v] = ""

\* the fetch loop of main.py has handled every symbol
FetchFinished == prog = "main" /\ sym = NumSymbols + 1

\* C1: a run of main.py in which get_stock_data returned None for all six
\* symbols exits with a non-zero code, and neither generate_ai_analysis nor
\* send_to_discord is ever attempted in it.
C1_NoQuoteFailsWithoutPublishing ==
    (prog = "main" /\ Len(errors) = NumSymbols) =>
        /\ pc \in {"total_items", "done"}
        /\ pc = "total_items" => ENABLED (MainCheckTotal /\ pc' = "done")
        /\ pc = "done" => exit_code # 0
        /\ ai_calls = 0 /\ posts = 0
        /\ "openai" \notin net /\ "webhook" \notin net

C1_Witness ==
    /\ prog = "main" /\ pc = "done" /\ exit_code = 1
    /\ Len(errors) = NumSymbols /\ Len(queried) = NumSymbols
    /\ total_items(results) = 0

\* C2: a run of main.py started on a Saturday or Sunday (Asia/Tokyo) makes
\* no network call of any kind and ends with exit code 0, whatever the
\* environment variables are.
C2_WeekendIsSilentNoOp ==
    (prog = "main" /\ weekday \in {5, 6}) =>
        /\ pc \in {"is_weekday", "done"}
        /\ pc = "is_weekday" => ENABLED MainGate
        /\ exit_code = 0
        /\ net = {} /\ queried = << >> /\ ai_calls = 0 /\ posts = 0

C2_Witness ==
    /\ prog = "main" /\ weekday = 6 /\ pc = "done" /\ exit_code = 0
    /\ env["DISCORD_WEBHOOK_URL"] = "" /\ net = {}

\* C3 as stated: in every run where a required environment variable is
\* absent the process exits with code 1 before any network activity, for
\* main.py on any day and for news_bot.py.
C3_AbsentConfigExitsOne ==
    ConfigAbsent =>
        /\ net = {} /\ ai_calls = 0 /\ posts = 0
        /\ pc = "done" => exit_code = 1

\* C3 amended: in every run where a required environment variable is absent
\* no network activity happens; the process exits with code 1 in
\* news_bot.py and in main.py on a business day, and with code 0 in main.py
\* on a Saturday or Sunday, where the variables are never read.
C3_AbsentConfigNoNetwork ==
    ConfigAbsent =>
        /\ net = {} /\ queried = << >> /\ ai_calls = 0 /\ posts = 0
        /\ pc \in {"is_weekday", "webhook_url", "openai_key", "done"}
        /\ pc # "done" => ENABLED Next
        /\ pc = "done" =>
             exit_code = IF prog = "main" /\ weekday \in {5, 6} THEN 0 ELSE 1

C3_Witness ==
    /\ prog = "main" /\ weekday = 2 /\ pc = "done" /\ exit_code = 1
    /\ env["DISCORD_WEBHOOK_URL"] = "set" /\ env["OPENAI_API_KEY"] = ""
    /\ net = {}

\* C5: in every run the webhook post is attempted at most once; when it
\* fails it is not retried and the process exits with a non-zero code; the
\* process exits 0 after a publish attempt only when that post succeeded.
C5_SinglePostDecidesExit ==
    /\ posts <= 1
    /\ posts = 1 => pc = "done" /\ ~ENABLED Next
    /\ (posts = 1 /\ ~post_ok) => exit_code # 0
    /\ (posts >= 1 /\ pc = "done" /\ exit_code = 0) => (post_ok /\ posts = 1)
    /\ pc = "send" => posts = 0

C5_Witness ==
    /\ prog = "news_bot" /\ pc = "done" /\ posts = 1 /\ ~post_ok /\ exit_code = 1

\* the quote lines of a message, in order
QuoteLinesOf(msg) == SelectSeq(msg, LAMBDA l : l.kind = "quote")

\* the entries of the results in the order japan, us, fx
ResultEntries(market_data) ==
    market_data["japan"] \o market_data["us"] \o market_data["fx"]

\* the message has, in order, one line for each stored quote and no other
LinesMatchResults(msg, market_data) ==
    LET ql == QuoteLinesOf(msg)
        re == ResultEntries(market_data)
    IN  /\ Len(ql) = Len(re)
        /\ \A k \in 1 .. Len(re) :
             /\ ql[k].name = re[k].name
             /\ ql[k].price.value = re[k].data.price
             /\ ql[k].pct = re[k].data.change_pct

\* the commentary is one of the lines of the message
HasTextLine(msg, t) == \E k \in 1 .. Len(msg) : msg[k].kind = "text" /\ msg[k].text = t

\* C4: in a run of main.py that reaches commentary generation, a failure
\* of the text-generation call does not abort the run: the commentary is
\* the fixed fallback sentence, the message holds that sentence and a line
\* for every fetched quote, and the webhook post is attempted exactly once.
C4_CommentaryFailureStillPublishes ==
    (prog = "main" /\ ai_calls >= 1 /\ ai_failed) =>
        /\ ai_calls = 1
        /\ ai_analysis = "analysis could not be generated"
        /\ HasTextLine(message, "analysis could not be generated")
        /\ LinesMatchResults(message, results)
        /\ total_items(results) >= 1
        /\ pc \in {"send", "done"}
        /\ pc = "send" => (exit_code = 0 /\ posts = 0 /\ ENABLED MainSend)
        /\ pc = "done" => posts = 1

C4_Witness ==
    /\ prog = "main" /\ pc = "done" /\ ai_failed /\ posts = 1 /\ post_ok
    /\ exit_code = 0
    /\ total_items(results) = 4 /\ Len(errors) = 2

\* the names of the symbols whose quote is stored
StoredNames(market_data) ==
    LET entries == ResultEntries(market_data)
    IN  {entries[k].name : k \in 1 .. Len(entries)}

ErrorSymbols == {errors[k] : k \in 1 .. Len(errors)}

\* C7: fetch_all_market_data calls get_stock_data for every configured
\* symbol exactly once, in order, whatever the earlier outcomes; each
\* handled symbol is either in the results with a valid quote or in the
\* error list, never in both; and with at least one valid quote the run goes
\* on to commentary generation and the webhook post, with a message that has
\* lines for exactly the symbols that succeeded.
C7_PartialResultsDoNotAbort ==
    prog = "main" =>
        /\ Len(queried) = (IF attempt > 0 THEN sym ELSE sym - 1)
        /\ \A k \in 1 .. Len(queried) : queried[k] = SymbolList[k].symbol
        /\ Len(errors) + total_items(results) = sym - 1
        /\ LET names == StoredNames(results)
               errs == ErrorSymbols
           IN  \A k \in 1 .. NumSymbols :
                 LET stored == SymbolList[k].name \in names
                     failed == SymbolList[k].symbol \in errs
                 IN  /\ ~(stored /\ failed)
                     /\ k < sym => (stored \/ failed)
                     /\ k >= sym => (~stored /\ ~failed)
        /\ LET entries == ResultEntries(results)
           IN  \A k \in 1 .. Len(entries) :
                 /\ ~entries[k].data.isNone
                 /\ entries[k].data.verified
        /\ pc \in {"total_items", "analysis", "send", "done"} /\ net # {}
             => (FetchFinished /\ Len(queried) = NumSymbols)
        /\ (FetchFinished /\ total_items(results) >= 1) =>
             /\ pc \in {"total_items", "analysis", "send", "done"}
             /\ pc # "done" => exit_code = 0
             /\ pc = "total_items" => ENABLED (MainCheckTotal /\ pc' = "analysis")
             /\ pc = "analysis" => ENABLED MainAnalyse
             /\ pc = "send" => ENABLED MainSend
             /\ pc \in {"send", "done"} =>
                  (ai_calls = 1 /\ LinesMatchResults(message, results))
             /\ pc = "done" => posts = 1

C7_Witness ==
    /\ prog = "main" /\ pc = "done" /\ posts = 1 /\ ai_calls = 1
    /\ errors = << "^N225", "^IXIC", "USDJPY=X" >>
    /\ Len(QuoteLinesOf(message)) = 3
    /\ QuoteLinesOf(message)[1].name = "TOPIX"

RECURSIVE WithoutSpaces(_)
\* a title with every white-space character removed
WithoutSpaces(t) ==
    IF t = << >> THEN << >>
    ELSE IF Head(t) \in {" ", "\t", "\n", "IDSP"} THEN WithoutSpaces(Tail(t))
    ELSE << Head(t) >> \o WithoutSpaces(Tail(t))

\* the key of a title: white space removed, then the first 30 characters
NewsKey(t) ==
    LET w == WithoutSpaces(t)
    IN  [k \in 1 .. (IF Len(w) < 30 THEN Len(w) ELSE 30) |-> w[k]]

\* the key of every title the sources deliver
KeyOf == [t \in Titles |-> NewsKey(t)]

RECURSIVE IsSubsequence(_, _)
\* a is b with some items left out, the order kept
IsSubsequence(a, b) ==
    IF a = << >> THEN TRUE
    ELSE IF b = << >> THEN FALSE
    ELSE IF Head(a) = Head(b) THEN IsSubsequence(Tail(a), Tail(b))
    ELSE IsSubsequence(a, Tail(b))

\* the input of deduplicate_news in main of news_bot.py
all_news == google_news \o yahoo_news

\* deduplicate_news has run
Deduplicated ==
    /\ prog = "news_bot"
    /\ pc \in {"summarize", "send"} \/ (pc = "done" /\ gq = NumQueries)

\* C10: deduplicate_news returns a subsequence of its input, in the input's
\* order, with no two items of the same key (title without white space, cut
\* to 30 characters), holding for every key of the input the first item
\* with that key, and unchanged by a second application; so the news run
\* exits with code 1 without summarizing or publishing exactly when both
\* sources returned no item.
C10_DeduplicateKeepsFirstPerKey ==
    /\ Deduplicated =>
         /\ IsSubsequence(unique_news, all_news)
         /\ \A a, b \in 1 .. Len(unique_news) :
              KeyOf[unique_news[a].title] = KeyOf[unique_news[b].title] => a = b
         /\ \A k \in 1 .. Len(all_news) :
              (\A j \in 1 .. k - 1 : KeyOf[all_news[j].title] # KeyOf[all_news[k].title])
              => \E a \in 1 .. Len(unique_news) : unique_news[a] = all_news[k]
         /\ \A a \in 1 .. Len(unique_news) : \E k \in 1 .. Len(all_news) :
              /\ unique_news[a] = all_news[k]
              /\ \A j \in 1 .. k - 1 :
                   KeyOf[all_news[j].title] # KeyOf[all_news[k].title]
         /\ deduplicate_news(unique_news) = unique_news
    /\ (prog = "news_bot" /\ pc = "done") =>
         ((exit_code = 1 /\ ai_calls = 0 /\ posts = 0)
            <=> (google_news = << >> /\ yahoo_news = << >>))

C10_Witness ==
    /\ Deduplicated /\ pc = "done" /\ posts = 1
    /\ Len(google_news) = 2 /\ Len(yahoo_news) = 1
    /\ google_news[1].title = << "a", " ", "b" >>
    /\ google_news[2].title = Rep("a", 29) \o << "\t", "a", "z" >>
    /\ yahoo_news[1].title = Rep("a", 30) \o << "x" >>
    /\ unique_news = google_news

\* the bars of a response that have no missing value
CompleteBars(resp) == SelectSeq(resp.bars, LAMBDA b : b.nan = FALSE)

\* the response passes validation: at least 2 complete bars, and the closes
\* of the last two are positive
PassesValidation(resp) ==
    /\ ~resp.raises
    /\ Len(CompleteBars(resp)) >= 2
    /\ CompleteBars(resp)[Len(CompleteBars(resp))].close > 0
    /\ CompleteBars(resp)[Len(CompleteBars(resp)) - 1].close > 0

\* the call of get_stock_data has returned
Returned == prog = "get_stock_data" /\ pc \in {"returned", "stored", "formatted"}

\* C6: get_stock_data terminates after at most 3 requests to the quote
\* provider; it returns a quote at the first attempt that passes validation,
\* without further requests, and returns None exactly when all 3 attempts
\* failed, a failed attempt being a fetch exception or a validation failure.
C6_QuoteAtFirstValidAttempt ==
    /\ reqs <= 3
    /\ pc = "call" => (reqs < 3 /\ ENABLED StockAttempt)
    /\ Returned =>
         /\ reqs >= 1
         /\ ~ret.isNone <=> PassesValidation(hist)
         /\ ret.isNone <=> (reqs = 3 /\ ~PassesValidation(hist))

\* C8 as stated: get_trend_emoji is a 5-bucket step function with thresholds
\* +1.0, +0.3, -0.3 and -1.0, and at each threshold exact equality selects
\* the higher bucket (+1.0 strong-up, +0.3 up, -0.3 flat, -1.0 down).
C8_EqualitySelectsHigherBucket ==
    (prog = "get_trend_emoji" /\ pc = "returned") =>
        emoji = CASE change_pct >= 100 -> "strong-up"
                  [] change_pct >= 30 /\ change_pct < 100 -> "up"
                  [] change_pct >= -30 /\ change_pct < 30 -> "flat"
                  [] change_pct >= -100 /\ change_pct < -30 -> "down"
                  [] change_pct < -100 -> "warning"

\* C8 amended: get_trend_emoji is a 5-bucket step function with thresholds
\* +1.0, +0.3, -0.3 and -1.0; exact equality selects the higher bucket at
\* the two positive thresholds (+1.0 strong-up, +0.3 up) and the lower
\* bucket at the two negative ones (-0.3 down, -1.0 warning).
C8_TrendBuckets ==
    (prog = "get_trend_emoji" /\ pc = "returned") =>
        emoji = CASE change_pct >= 100 -> "strong-up"
                  [] change_pct >= 30 /\ change_pct < 100 -> "up"
                  [] change_pct > -30 /\ change_pct < 30 -> "flat"
                  [] change_pct > -100 /\ change_pct <= -30 -> "down"
                  [] change_pct <= -100 -> "warning"

C8_Witness ==
    /\ prog = "get_trend_emoji" /\ pc = "returned"
    /\ change_pct = -30 /\ emoji = "down"

\* the properties of a returned quote against the response it came from
QuoteFromTwoBars(q, resp) ==
    /\ q.price > 0 /\ q.prev_close > 0
    /\ q.change = q.price - q.prev_close
    /\ q.change_pct * q.prev_close = q.change * 10000
    /\ q.verified
    /\ ~resp.raises
    /\ Len(CompleteBars(resp)) >= 2
    /\ q.price = CompleteBars(resp)[Len(CompleteBars(resp))].close
    /\ q.prev_close = CompleteBars(resp)[Len(CompleteBars(resp)) - 1].close

\* C9: every quote get_stock_data returns, and so every quote stored in the
\* results and shown in the message, has strictly positive latest and
\* previous-close prices, comes from an attempt that returned at least 2
\* complete bars (the closes of the last two), has change = latest -
\* previous and the validity flag; no percent change is computed with a
\* zero previous close.
C9_QuotesArePositiveAndDerived ==
    prog = "get_stock_data" =>
        /\ ~zero_div
        /\ (Returned /\ ~ret.isNone) => QuoteFromTwoBars(ret, hist)
        /\ \A k \in 1 .. Len(ResultEntries(results)) :
             /\ ResultEntries(results)[k].name = SymbolList[sym].name
             /\ ResultEntries(results)[k].data = ret
             /\ QuoteFromTwoBars(ResultEntries(results)[k].data, hist)
        /\ pc = "stored" => (Len(ResultEntries(results)) = 1 <=> ~ret.isNone)
        /\ pc = "formatted" =>
             /\ LinesMatchResults(message, results)
             /\ Len(QuoteLinesOf(message)) = 1
             /\ QuoteLinesOf(message)[1].price.value > 0

C9_Witness ==
    /\ prog = "get_stock_data" /\ pc = "formatted"
    /\ Len(hist.bars) = 3 /\ hist.bars[2].nan
    /\ ret.price = 1 /\ ret.prev_close = 2 /\ ret.change = -1
    /\ ret.change_pct = -5000
    /\ reqs = 3

====
